---- MODULE Spec2Model ----
(***************************************************************************)
(* bedrockrs_addon: the SemVer parsers of src/utils.rs and the manifest    *)
(* normalizer deserialize_manifest_from_str of src/generics/manifest.rs.   *)
(*                                                                         *)
(* A Rust String is a sequence of one-character strings wherever the code  *)
(* looks inside it (version texts); names, capability flags and uuid texts *)
(* are only compared or looked up and stay atomic strings.  A panic        *)
(* (unwrap / expect / index out of bounds) ends the call with no value.    *)
(***************************************************************************)
EXTENDS Integers, Sequences, FiniteSets, TLC

VARIABLES
    pre,        \* SpecVersion: the PreVer value handed to a SemVer parser
    vpc,        \* SpecVersion: "ready" | "returned" | "panicked"
    semver,     \* SpecVersion: <<>> or <<the SemVer returned>>
    vpanic,     \* SpecVersion: the panic message, "" when none
    doc,        \* Spec: the JSON document given to deserialize_manifest_from_str
    pc,         \* Spec: "ready" | "returned" | "panicked"
    manifest,   \* Spec: <<>> or <<the Manifest returned>>
    panic       \* Spec: the panic message, "" when none

vars == <<pre, vpc, semver, vpanic, doc, pc, manifest, panic>>

(***************************** bounds **************************************)
MaxInt == 10
MaxSmall == 2
MaxTokens == 5
MaxVecLen == 4
MaxVecInt == 2
MaxModules == 3
MaxDeps == 3
MaxCaps == 2
MaxSubpacks == 2

(************************* i32 and characters ******************************)
I32_MAX == 2147483647

Digits == <<"0", "1", "2", "3", "4", "5", "6", "7", "8", "9">>

IsDigit(c) == \E d \in 1..10 : Digits[d] = c

DigitVal(c) == (CHOOSE d \in 1..10 : Digits[d] = c) - 1

\* the literal "-beta" of utils.rs
BETA == <<"-", "b", "e", "t", "a">>

\* s[i..] starts with pat
MatchAt(s, i, pat) ==
    /\ i + Len(pat) - 1 <= Len(s)
    /\ \A k \in 1..Len(pat) : s[i + k - 1] = pat[k]

\* str::contains(pat), pat not empty
str_contains(s, pat) == \E i \in 1..Len(s) : MatchAt(s, i, pat)

\* str::ends_with(pat)
str_ends_with(s, pat) ==
    /\ Len(pat) <= Len(s)
    /\ MatchAt(s, Len(s) - Len(pat) + 1, pat)

RECURSIVE replace_from(_, _, _)
\* str::replace(pat, ""), scanning from position i: every non-overlapping
\* match, left to right, is removed; the result is not scanned again
replace_from(s, i, pat) ==
    IF i > Len(s) THEN <<>>
    ELSE IF MatchAt(s, i, pat) THEN replace_from(s, i + Len(pat), pat)
    ELSE <<s[i]>> \o replace_from(s, i + 1, pat)

str_replace(s, pat) == replace_from(s, 1, pat)

RECURSIVE split_from(_, _, _, _)
\* str::split(sep) for a one-character sep: always at least one piece, empty
\* pieces kept ("" -> [""], "1..2" -> ["1", "", "2"], "1." -> ["1", ""])
split_from(s, i, sep, cur) ==
    IF i > Len(s) THEN <<cur>>
    ELSE IF s[i] = sep THEN <<cur>> \o split_from(s, i + 1, sep, <<>>)
    ELSE split_from(s, i + 1, sep, Append(cur, s[i]))

str_split(s, sep) == split_from(s, 1, sep, <<>>)

\* the largest |acc| for which acc * 10 +/- d stays within i32
mul10_limit(d, neg) ==
    IF neg /\ d > 0 THEN (I32_MAX - (d - 1)) \div 10 ELSE (I32_MAX - d) \div 10

RECURSIVE accumulate(_, _, _, _)
\* the checked_mul(10) / checked_add or checked_sub loop of i32::from_str over
\* the digits ds from position i: a negative number is accumulated downwards
accumulate(ds, i, acc, neg) ==
    IF i > Len(ds) THEN [ok |-> TRUE, val |-> acc]
    ELSE LET d == DigitVal(ds[i])
             mag == IF neg THEN 0 - acc ELSE acc
         IN  IF mag > mul10_limit(d, neg) THEN [ok |-> FALSE, val |-> 0]
             ELSE accumulate(ds, i + 1, IF neg THEN acc * 10 - d ELSE acc * 10 + d, neg)

\* str::parse::<i32>(): an optional sign, then one or more ASCII digits, the
\* value within i32; anything else is Err
parse_i32(s) ==
    IF Len(s) = 0 THEN [ok |-> FALSE, val |-> 0]
    ELSE LET signed == s[1] \in {"+", "-"}
             ds == IF signed THEN Tail(s) ELSE s
         IN  IF Len(ds) = 0 \/ \E i \in 1..Len(ds) : ~IsDigit(ds[i])
             THEN [ok |-> FALSE, val |-> 0]
             ELSE accumulate(ds, 1, 0, s[1] = "-")

(******************************* SemVer ************************************)
SemVer(major, minor, patch, beta) ==
    [major |-> major, minor |-> minor, patch |-> patch, beta |-> beta]

ZeroVer == SemVer(0, 0, 0, FALSE)

\* what a call gives: a value, or a panic with its message
Returned(v) == [ok |-> TRUE, panic |-> "", val |-> v]

Panicked(msg, filler) == [ok |-> FALSE, panic |-> msg, val |-> filler]

PANIC_SEMVER == "Couldn't parse SemVer"
PANIC_INDEX == "index out of bounds"

\* utils.rs line 13: let mut new_src = src.replace("-beta", "")
new_src(src) == str_replace(src, BETA)

\* a slip: the marker looked for after it has been removed
beta_after_replace(src) == str_contains(new_src(src), BETA)

\* utils.rs line 12: let mut beta = src.contains("-beta")
beta_of(src) == str_contains(src, BETA)

\* utils.rs line 14: new_src.split(".").collect()
split_str(src) == str_split(new_src(src), ".")

\* split_str[i].parse::<i32>().expect(..) for the 0-based index i: indexing
\* comes first, then the parse
component(parts, i) ==
    IF i + 1 > Len(parts) THEN Panicked(PANIC_INDEX, 0)
    ELSE LET p == parse_i32(parts[i + 1])
         IN  IF p.ok THEN Returned(p.val) ELSE Panicked(PANIC_SEMVER, 0)

parse_semver_from_str(src) ==
    LET parts == split_str(src)
        major == component(parts, 0)
        minor == component(parts, 1)
        patch == component(parts, 2)
    IN  IF ~major.ok THEN Panicked(major.panic, ZeroVer)
        ELSE IF ~minor.ok THEN Panicked(minor.panic, ZeroVer)
        ELSE IF ~patch.ok THEN Panicked(patch.panic, ZeroVer)
        ELSE Returned(SemVer(major.val, minor.val, patch.val, beta_of(src)))

\* a slip: a missing element read as 0
vec_index_or_zero(src, i) ==
    IF i + 1 > Len(src) THEN Returned(0) ELSE Returned(src[i + 1])

\* src[i] of a Vec<i32>, 0-based
vec_index(src, i) ==
    IF i + 1 > Len(src) THEN Panicked(PANIC_INDEX, 0) ELSE Returned(src[i + 1])

parse_semver_from_vec(src) ==
    LET major == vec_index(src, 0)
        minor == vec_index(src, 1)
        patch == vec_index(src, 2)
    IN  IF ~major.ok THEN Panicked(major.panic, ZeroVer)
        ELSE IF ~minor.ok THEN Panicked(minor.panic, ZeroVer)
        ELSE IF ~patch.ok THEN Panicked(patch.panic, ZeroVer)
        ELSE Returned(SemVer(major.val, minor.val, patch.val, FALSE))

(************************ PreVer and its inputs ****************************)
\* enum PreVer { Vec(Vec<i32>), Str(String) }
PreVerVec(ints) == [kind |-> "Vec", ints |-> ints, text |-> <<>>]

PreVerStr(text) == [kind |-> "Str", ints |-> <<>>, text |-> text]

\* the sequences over S of length at most n
SeqsUpTo(S, n) == UNION {[1..k -> S] : k \in 0..n}

RECURSIVE Flatten(_)
Flatten(ss) == IF Len(ss) = 0 THEN <<>> ELSE Head(ss) \o Flatten(Tail(ss))

RECURSIVE nat_to_string(_)
nat_to_string(n) ==
    IF n < 10 THEN <<Digits[n + 1]>>
    ELSE nat_to_string(n \div 10) \o <<Digits[(n % 10) + 1]>>

\* i32's Display: the decimal text of n
to_string(n) == IF n < 0 THEN <<"-">> \o nat_to_string(0 - n) ELSE nat_to_string(n)

\* the text "a.b.c"
Dotted(a, b, c) ==
    to_string(a) \o <<".">> \o to_string(b) \o <<".">> \o to_string(c)

\* s with pat put in after its first i characters
InsertAt(s, i, pat) == SubSeq(s, 1, i) \o pat \o SubSeq(s, i + 1, Len(s))

Ints == (0 - MaxInt)..MaxInt

Tokens == {<<"1">>, <<"2">>, <<".">>, <<"-">>, BETA}

\* texts at the edge of i32
EdgeTexts ==
    {<<"2","1","4","7","4","8","3","6","4","7">> \o <<".", "0", ".", "0">>,
     <<"2","1","4","7","4","8","3","6","4","8">> \o <<".", "0", ".", "0">>,
     <<"-","2","1","4","7","4","8","3","6","4","8">> \o <<".", "0", ".", "0">>,
     <<"-","2","1","4","7","4","8","3","6","4","9">> \o <<".", "0", ".", "0">>,
     <<"+", "1", ".", "0", ".", "0">>}

\* the inputs of the parsers:
\* "a.b.c" and "a.b.c-beta" for every a, b, c of Ints
PreIsDotted ==
    \E a \in Ints, b \in Ints, c \in Ints, suffix \in {<<>>, BETA} :
        pre = PreVerStr(Dotted(a, b, c) \o suffix)

\* "a.b.c" with -beta at every position, the end included
PreIsMarked ==
    \E a \in 0..MaxSmall, b \in 0..MaxSmall, c \in 0..MaxSmall :
        \E i \in 0..Len(Dotted(a, b, c)) :
            pre = PreVerStr(InsertAt(Dotted(a, b, c), i, BETA))

\* every text of at most MaxTokens tokens
PreIsTokens ==
    \E k \in 0..MaxTokens : \E ts \in [1..k -> Tokens] : pre = PreVerStr(Flatten(ts))

PreIsEdge == \E t \in EdgeTexts : pre = PreVerStr(t)

\* every vector of at most MaxVecLen integers of -1..MaxVecInt
PreIsVec ==
    \E k \in 0..MaxVecLen : \E v \in [1..k -> (0 - 1)..MaxVecInt] : pre = PreVerVec(<<>> \o v)

(****************************** SpecVersion ********************************)
IdleDoc == <<>>

InitVersion ==
    /\ PreIsDotted \/ PreIsMarked \/ PreIsTokens \/ PreIsEdge \/ PreIsVec
    /\ vpc = "ready"
    /\ semver = <<>>
    /\ vpanic = ""
    /\ doc = IdleDoc
    /\ pc = "idle"
    /\ manifest = <<>>
    /\ panic = ""

\* one call of a parser: its value, or its panic and no value
Finish(r) ==
    /\ vpc' = IF r.ok THEN "returned" ELSE "panicked"
    /\ semver' = IF r.ok THEN <<r.val>> ELSE <<>>
    /\ vpanic' = r.panic
    /\ UNCHANGED <<pre, doc, pc, manifest, panic>>

ParseSemverFromStr ==
    /\ vpc = "ready"
    /\ pre.kind = "Str"
    /\ Finish(parse_semver_from_str(pre.text))

ParseSemverFromVec ==
    /\ vpc = "ready"
    /\ pre.kind = "Vec"
    /\ Finish(parse_semver_from_vec(pre.ints))

NextVersion == ParseSemverFromStr \/ ParseSemverFromVec

SpecVersion == InitVersion /\ [][NextVersion]_vars

(*************************** the raw document ******************************)
\* Option<String>
None == [some |-> FALSE, val |-> ""]

Some(v) == [some |-> TRUE, val |-> v]

\* The JSON value found at a version field: an array of integers, a string, or
\* anything else (a number, null, an object, an array holding a non-integer,
\* or no such field).
JsonInts(ints) == [kind |-> "Vec", ints |-> ints, text |-> <<>>]

JsonText(text) == [kind |-> "Str", ints |-> <<>>, text |-> text]

JsonOther == [kind |-> "Other", ints |-> <<>>, text |-> <<>>]

\* the integers of a version text, <<>> when it does not parse
text_ints(r) == IF r.ok THEN <<r.val.major, r.val.minor, r.val.patch>> ELSE <<>>

\* the field declared so that a version text decodes as well
decode_vec_i32_or_str(j) ==
    IF j.kind = "Vec" THEN Returned(j.ints)
    ELSE IF j.kind = "Str" THEN Returned(text_ints(parse_semver_from_str(j.text)))
    ELSE Panicked("invalid type", <<>>)

\* serde's Vec<i32>: a JSON array of integers, of any length
decode_vec_i32(j) ==
    IF j.kind = "Vec" THEN Returned(j.ints) ELSE Panicked("invalid type", <<>>)

\* serde's untagged PreVer: the first variant that fits, Vec(Vec<i32>) then
\* Str(String); an error when neither does
decode_PreVer(j) ==
    IF j.kind = "Vec" THEN Returned(PreVerVec(j.ints))
    ELSE IF j.kind = "Str" THEN Returned(PreVerStr(j.text))
    ELSE Panicked("data did not match any variant of untagged enum PreVer", PreVerVec(<<>>))

\* struct PreManifestHeader
decode_header(h) ==
    LET min_engine_version == decode_vec_i32(h.min_engine_version)
        version == decode_vec_i32(h.version)
    IN  [ok |-> min_engine_version.ok /\ version.ok,
         val |-> [name |-> h.name, description |-> h.description,
                  min_engine_version |-> min_engine_version.val,
                  uuid |-> h.uuid, version |-> version.val]]

\* struct PreManifestModule (language and description are decoded and never read)
decode_module(m) ==
    LET version == decode_vec_i32(m.version)
    IN  [ok |-> version.ok,
         val |-> [type_id |-> m.type_id, uuid |-> m.uuid, version |-> version.val,
                  entry |-> m.entry]]

\* struct PreManifestDependency
decode_dependency(d) ==
    LET version == decode_PreVer(d.version)
    IN  [ok |-> version.ok,
         val |-> [uuid |-> d.uuid, module_name |-> d.module_name,
                  version |-> version.val]]

\* the decoded parts put together: every field decoded, or the whole decode is
\* an error
PreManifest(src, header, modules, dependencies) ==
    [ok |-> /\ header.ok
            /\ \A i \in 1..Len(modules) : modules[i].ok
            /\ \A i \in 1..Len(dependencies) : dependencies[i].ok,
     val |-> [format_version |-> src.format_version,
              header |-> header.val,
              modules |-> [i \in 1..Len(modules) |-> modules[i].val],
              dependencies |-> [i \in 1..Len(dependencies) |-> dependencies[i].val],
              capabilities |-> src.capabilities,
              subpacks |-> src.subpacks]]

\* struct PreManifest, by serde_json::from_str: the fields in place and in order
decode_PreManifest(src) ==
    PreManifest(src,
                decode_header(src.header),
                [i \in 1..Len(src.modules) |-> decode_module(src.modules[i])],
                [i \in 1..Len(src.dependencies) |-> decode_dependency(src.dependencies[i])])

(******************************* uuid **************************************)
UUID_A == "67e55044-10b1-426f-9247-bb680e5fe0c8"
UUID_A_SIMPLE == "67e5504410b1426f9247bb680e5fe0c8"
UUID_A_UPPER == "67E55044-10B1-426F-9247-BB680E5FE0C8"
UUID_B == "936da01f-9abd-4d9d-80c7-02af85c822a8"
UUID_BAD == "not-a-uuid"

\* Uuid::from_str / Uuid::parse_str on the uuid texts of this model: the
\* hyphenated, simple and upper-case texts of one uuid give the same Uuid
\* (written here by its lower-case hyphenated text); any other text is an Err
uuid_from_str(text) ==
    IF text \in {UUID_A, UUID_A_SIMPLE, UUID_A_UPPER} THEN [ok |-> TRUE, val |-> UUID_A]
    ELSE IF text = UUID_B THEN [ok |-> TRUE, val |-> UUID_B]
    ELSE [ok |-> FALSE, val |-> ""]

(************************* the normalized model ****************************)
PANIC_UNWRAP_ERR == "called Result::unwrap() on an Err value"
PANIC_UNWRAP_NONE == "called Option::unwrap() on a None value"

\* enum ManifestModule
ModuleData(uuid, version) ==
    [variant |-> "Data", uuid |-> uuid, version |-> version, entry |-> ""]

ModuleResources(uuid, version) ==
    [variant |-> "Resources", uuid |-> uuid, version |-> version, entry |-> ""]

ModuleScript(uuid, version, entry) ==
    [variant |-> "Script", uuid |-> uuid, version |-> version, entry |-> entry]

\* enum ScriptManifestDependency and enum ManifestCapability: a named variant,
\* or Custom(String)
Named(variant) == [variant |-> variant, custom |-> ""]

Custom(text) == [variant |-> "Custom", custom |-> text]

\* enum ManifestDependency
ScriptDependency(name, version) ==
    [variant |-> "ScriptDependency", name |-> name, uuid |-> "", version |-> version]

UuidDependency(uuid, version) ==
    [variant |-> "UuidDependency", name |-> Named(""), uuid |-> uuid, version |-> version]

SCRIPT_MANIFEST_DEPENDENCIES ==
    ("@minecraft/server" :> Named("MinecraftServer")) @@
    ("@minecraft/server-ui" :> Named("MinecraftServerUi")) @@
    ("@minecraft/server-gametest" :> Named("MinecraftServerGametest")) @@
    ("@minecraft/server-net" :> Named("MinecraftServerNet")) @@
    ("@minecraft/server-admin" :> Named("MinecraftServerAdmin")) @@
    ("@minecraft/server-editor" :> Named("MinecraftServerEditor")) @@
    ("@minecraft/debug-utilities" :> Named("MinecraftDebugUtilities"))

\* the table keyed by the six names as the data model lists them
MANIFEST_CAPABILITIES_as_listed ==
    ("raytraced" :> Named("Raytraced")) @@
    ("chemistry" :> Named("Chemistry")) @@
    ("editor-extension" :> Named("EditorExtension")) @@
    ("experimental-custom-ui" :> Named("ExperimentalCustomUi")) @@
    ("PBR" :> Named("PBR")) @@
    ("script-eval" :> Named("ScriptEval"))

MANIFEST_CAPABILITIES ==
    ("raytraced" :> Named("Raytraced")) @@
    ("chemistry" :> Named("Chemistry")) @@
    ("editorExtension" :> Named("EditorExtension")) @@
    ("experimental_custom_ui" :> Named("ExperimentalCustomUi")) @@
    ("pbr" :> Named("PBR")) @@
    ("script_eval" :> Named("ScriptEval"))

\* HashMap::get
map_get(map, key) == IF key \in DOMAIN map THEN Some(map[key]) ELSE None

(********************* deserialize_manifest_from_str ***********************)
\* manifest.rs 62-68: the fields of the struct expression, in the order written
convert_header(h) ==
    LET min_engine_version == parse_semver_from_vec(h.min_engine_version)
        version == parse_semver_from_vec(h.version)
        uuid == uuid_from_str(h.uuid)
        filler == [uuid |-> "", name |-> "", description |-> "",
                   min_engine_version |-> ZeroVer, version |-> ZeroVer]
    IN  IF ~min_engine_version.ok THEN Panicked(min_engine_version.panic, filler)
        ELSE IF ~version.ok THEN Panicked(version.panic, filler)
        ELSE IF ~uuid.ok THEN Panicked(PANIC_UNWRAP_ERR, filler)
        ELSE Returned([uuid |-> uuid.val, name |-> h.name, description |-> h.description,
                       min_engine_version |-> min_engine_version.val,
                       version |-> version.val])

\* a slip: a missing entry read as the empty string
push_script_entry_or_default(module, uuid, version) ==
    IF ~uuid.ok THEN Panicked(PANIC_UNWRAP_ERR, <<>>)
    ELSE IF ~version.ok THEN Panicked(version.panic, <<>>)
    ELSE Returned(<<ModuleScript(uuid.val, version.val, module.entry.val)>>)

\* manifest.rs 74-80: uuid, version and entry, in the order of the arguments
push_script(module, uuid, version) ==
    IF ~uuid.ok THEN Panicked(PANIC_UNWRAP_ERR, <<>>)
    ELSE IF ~version.ok THEN Panicked(version.panic, <<>>)
    ELSE IF ~module.entry.some THEN Panicked(PANIC_UNWRAP_NONE, <<>>)
    ELSE Returned(<<ModuleScript(uuid.val, version.val, module.entry.val)>>)

\* manifest.rs 83-88
push_data(uuid, version) ==
    IF ~uuid.ok THEN Panicked(PANIC_UNWRAP_ERR, <<>>)
    ELSE IF ~version.ok THEN Panicked(version.panic, <<>>)
    ELSE Returned(<<ModuleData(uuid.val, version.val)>>)

\* "resources" given the variant of its own
push_resources(uuid, version) ==
    IF ~uuid.ok THEN Panicked(PANIC_UNWRAP_ERR, <<>>)
    ELSE IF ~version.ok THEN Panicked(version.panic, <<>>)
    ELSE Returned(<<ModuleResources(uuid.val, version.val)>>)

convert_module_resources_apart(module) ==
    IF module.type_id = "script"
    THEN push_script(module, uuid_from_str(module.uuid), parse_semver_from_vec(module.version))
    ELSE IF module.type_id = "data"
    THEN push_data(uuid_from_str(module.uuid), parse_semver_from_vec(module.version))
    ELSE IF module.type_id = "resources"
    THEN push_resources(uuid_from_str(module.uuid), parse_semver_from_vec(module.version))
    ELSE Returned(<<>>)

\* manifest.rs 73-89, one pass of the loop body: what is pushed (nothing, or
\* one module), or the panic
convert_module(module) ==
    IF module.type_id = "script"
    THEN push_script(module, uuid_from_str(module.uuid), parse_semver_from_vec(module.version))
    ELSE IF module.type_id = "data" \/ module.type_id = "resources"
    THEN push_data(uuid_from_str(module.uuid), parse_semver_from_vec(module.version))
    ELSE Returned(<<>>)

\* the push at the other end
push_front(pushed, acc) == pushed \o acc

\* Vec::push of what one pass gives
push_back(pushed, acc) == acc \o pushed

RECURSIVE modules_loop(_, _, _)
\* manifest.rs 70-90: the loop from record i on, acc being what is pushed so far
modules_loop(pre_modules, i, acc) ==
    IF i > Len(pre_modules) THEN Returned(acc)
    ELSE IF ~convert_module(pre_modules[i]).ok
    THEN Panicked(convert_module(pre_modules[i]).panic, <<>>)
    ELSE modules_loop(pre_modules, i + 1, push_back(convert_module(pre_modules[i]).val, acc))

\* manifest.rs 99-103
script_name(module_name) ==
    IF map_get(SCRIPT_MANIFEST_DEPENDENCIES, module_name).some
    THEN map_get(SCRIPT_MANIFEST_DEPENDENCIES, module_name).val
    ELSE Custom(module_name)

\* manifest.rs 106-114 and 122-130: the version of a dependency
dependency_version(version) ==
    IF version.kind = "Str" THEN parse_semver_from_str(version.text)
    ELSE IF version.kind = "Vec" THEN parse_semver_from_vec(version.ints)
    ELSE Returned(SemVer(1, 0, 0, FALSE))

\* manifest.rs 96-117: the name first, then the version
script_dependency(dep, version) ==
    IF ~version.ok THEN Panicked(version.panic, UuidDependency("", ZeroVer))
    ELSE Returned(ScriptDependency(script_name(dep.module_name.val), version.val))

\* manifest.rs 119-132: dep.uuid.unwrap(), Uuid::parse_str(..).unwrap(), then
\* the version
uuid_dependency(dep, uuid, version) ==
    IF ~dep.uuid.some THEN Panicked(PANIC_UNWRAP_NONE, UuidDependency("", ZeroVer))
    ELSE IF ~uuid.ok THEN Panicked(PANIC_UNWRAP_ERR, UuidDependency("", ZeroVer))
    ELSE IF ~version.ok THEN Panicked(version.panic, UuidDependency("", ZeroVer))
    ELSE Returned(UuidDependency(uuid.val, version.val))

\* a slip: the uuid looked at first
convert_dependency_uuid_first(dep) ==
    IF dep.uuid.some \/ ~dep.module_name.some
    THEN uuid_dependency(dep, uuid_from_str(dep.uuid.val), dependency_version(dep.version))
    ELSE script_dependency(dep, dependency_version(dep.version))

\* manifest.rs 95-133, one pass of the loop body
convert_dependency(dep) ==
    IF dep.module_name.some
    THEN script_dependency(dep, dependency_version(dep.version))
    ELSE uuid_dependency(dep, uuid_from_str(dep.uuid.val), dependency_version(dep.version))

RECURSIVE dependencies_loop(_, _, _)
\* manifest.rs 92-134
dependencies_loop(pre_dependencies, i, acc) ==
    IF i > Len(pre_dependencies) THEN Returned(acc)
    ELSE IF ~convert_dependency(pre_dependencies[i]).ok
    THEN Panicked(convert_dependency(pre_dependencies[i]).panic, <<>>)
    ELSE dependencies_loop(pre_dependencies, i + 1,
                           Append(acc, convert_dependency(pre_dependencies[i]).val))

\* manifest.rs 141-147, one pass of the loop body
convert_capability(cap) ==
    IF map_get(MANIFEST_CAPABILITIES, cap).some
    THEN map_get(MANIFEST_CAPABILITIES, cap).val
    ELSE Custom(cap)

RECURSIVE capabilities_loop(_, _, _)
\* manifest.rs 138-148
capabilities_loop(pre_capabilities, i, acc) ==
    IF i > Len(pre_capabilities) THEN acc
    ELSE capabilities_loop(pre_capabilities, i + 1,
                           Append(acc, convert_capability(pre_capabilities[i])))

\* manifest.rs 150-152, after the panics of the parts, the first in the order
\* the code runs them
Manifest(header, modules, dependencies, subpacks, capabilities) ==
    IF ~header.ok THEN Panicked(header.panic, <<>>)
    ELSE IF ~modules.ok THEN Panicked(modules.panic, <<>>)
    ELSE IF ~dependencies.ok THEN Panicked(dependencies.panic, <<>>)
    ELSE Returned([header |-> header.val, modules |-> modules.val,
                   dependencies |-> dependencies.val, subpacks |-> subpacks,
                   capabilities |-> capabilities])

\* manifest.rs 62-152, on the decoded document
normalize(deserialized_pre) ==
    Manifest(convert_header(deserialized_pre.header),
             modules_loop(deserialized_pre.modules, 1, <<>>),
             dependencies_loop(deserialized_pre.dependencies, 1, <<>>),
             deserialized_pre.subpacks,
             capabilities_loop(deserialized_pre.capabilities, 1, <<>>))

\* manifest.rs 60: serde_json::from_str(src).unwrap()
unwrap_then_normalize(decoded) ==
    IF ~decoded.ok THEN Panicked(PANIC_UNWRAP_ERR, <<>>) ELSE normalize(decoded.val)

deserialize_manifest_from_str(src) == unwrap_then_normalize(decode_PreManifest(src))

(***************************** documents ***********************************)
V100 == JsonInts(<<1, 0, 0>>)

HeaderRecord(version, min_engine_version, uuid) ==
    [name |-> "Addon", description |-> "An addon", min_engine_version |-> min_engine_version,
     uuid |-> uuid, version |-> version]

ModuleRecord(type_id, uuid, version, entry) ==
    [type_id |-> type_id, uuid |-> uuid, version |-> version, entry |-> entry]

DependencyRecord(module_name, uuid, version) ==
    [uuid |-> uuid, module_name |-> module_name, version |-> version]

Subpack(folder_name, name, memory_tier) ==
    [folder_name |-> folder_name, name |-> name, memory_tier |-> memory_tier]

Document(header, modules, dependencies, capabilities, subpacks) ==
    [format_version |-> 2, header |-> header, modules |-> modules,
     dependencies |-> dependencies, capabilities |-> capabilities, subpacks |-> subpacks]

\* a well-formed document: version [1,0,0], one script module, one dependency
\* on @minecraft/server 1.2.0-beta, capabilities raytraced and mystery
BaseHeader == HeaderRecord(V100, JsonInts(<<1, 21, 0>>), UUID_A)

BaseModules == <<ModuleRecord("script", UUID_B, V100, Some("main.js"))>>

BaseDependencies ==
    <<DependencyRecord(Some("@minecraft/server"), None, JsonText(Dotted(1, 2, 0) \o BETA))>>

BaseCapabilities == <<"raytraced", "mystery">>

BaseSubpacks == <<Subpack("low", "Low memory", 1)>>

HeaderVersions ==
    {V100, JsonInts(<<1, 2>>), JsonInts(<<1, 2, 3, 4>>), JsonText(Dotted(1, 0, 0)),
     JsonText(Dotted(1, 0, 0) \o BETA), JsonOther}

Headers ==
    {HeaderRecord(v, m, u) :
        v \in HeaderVersions, m \in HeaderVersions, u \in {UUID_A, UUID_A_SIMPLE, UUID_BAD}}

ModuleRecords ==
    {ModuleRecord(t, UUID_A, V100, IF t = "script" THEN Some("main.js") ELSE None) :
        t \in {"script", "data", "resources", "plugin"}}
    \cup
    {ModuleRecord(t, UUID_B, JsonInts(<<0, 2, 1>>), IF t = "script" THEN Some("index.js") ELSE None) :
        t \in {"script", "data", "resources", "plugin"}}
    \cup
    {ModuleRecord("script", UUID_A, V100, None),
     ModuleRecord("plugin", UUID_BAD, JsonInts(<<1>>), None),
     ModuleRecord("data", UUID_BAD, V100, None),
     ModuleRecord("resources", UUID_A, JsonInts(<<1, 2>>), None)}

DependencyRecords ==
    {DependencyRecord(Some("@minecraft/server"), None, JsonText(Dotted(1, 2, 0) \o BETA)),
     DependencyRecord(Some("@minecraft/server-ui"), None, V100),
     DependencyRecord(Some("my-lib"), None, JsonText(Dotted(2, 0, 1))),
     DependencyRecord(Some("@minecraft/server"), Some(UUID_BAD), V100),
     DependencyRecord(None, Some(UUID_A), JsonInts(<<3, 1, 4>>)),
     DependencyRecord(None, Some(UUID_B), JsonText(Dotted(1, 0, 0) \o BETA)),
     DependencyRecord(None, Some(UUID_BAD), V100),
     DependencyRecord(None, None, V100),
     DependencyRecord(Some("my-lib"), None, JsonText(<<"1", ".", "2">>)),
     DependencyRecord(None, Some(UUID_A), JsonInts(<<1, 2>>)),
     DependencyRecord(Some("@minecraft/server"), None, JsonOther),
     DependencyRecord(Some("my-lib"), Some(UUID_A), JsonText(<<"x", ".", "y", ".", "z">>))}

ModuleNames ==
    DOMAIN SCRIPT_MANIFEST_DEPENDENCIES
    \cup {"@Minecraft/Server", "@minecraft/server-UI", "minecraft/server", "my-lib", ""}

DependencyVersions ==
    {JsonOther}
    \cup {JsonInts(<<>> \o v) : v \in SeqsUpTo(0..1, MaxVecLen)}
    \cup {JsonText(t) : t \in {Dotted(1, 2, 3), Dotted(1, 2, 3) \o BETA, <<"1", ".", "2">>,
                                <<"x", ".", "y", ".", "z">>, <<"1">>, <<>>,
                                <<"1", ".", "2", ".", "3", ".", "4">>}}

CapabilityTexts ==
    DOMAIN MANIFEST_CAPABILITIES
    \cup DOMAIN MANIFEST_CAPABILITIES_as_listed
    \cup {"custom_flag", "mystery", "Raytraced", "editorextension", ""}

Subpacks ==
    {Subpack("low", "Low memory", 1), Subpack("high", "High memory", 4),
     Subpack("low", "Low again", 0)}

BaseWith(header, modules, dependencies, capabilities, subpacks) ==
    doc = Document(header, <<>> \o modules, <<>> \o dependencies, <<>> \o capabilities,
                   <<>> \o subpacks)

\* the base document with one part replaced by every value of that part
DocVariesHeader ==
    \E h \in Headers :
        BaseWith(h, BaseModules, BaseDependencies, BaseCapabilities, BaseSubpacks)

DocVariesModules ==
    \E k \in 0..MaxModules : \E ms \in [1..k -> ModuleRecords] :
        BaseWith(BaseHeader, ms, BaseDependencies, BaseCapabilities, BaseSubpacks)

DocVariesDependencies ==
    \E k \in 0..MaxDeps : \E ds \in [1..k -> DependencyRecords] :
        BaseWith(BaseHeader, BaseModules, ds, BaseCapabilities, BaseSubpacks)

DocVariesName ==
    \E n \in ModuleNames, u \in {None, Some(UUID_A), Some(UUID_BAD)} :
        BaseWith(BaseHeader, BaseModules, <<DependencyRecord(Some(n), u, V100)>>,
                 BaseCapabilities, BaseSubpacks)

DocVariesVersion ==
    \E n \in {None, Some("@minecraft/server")}, v \in DependencyVersions :
        BaseWith(BaseHeader, BaseModules, <<DependencyRecord(n, Some(UUID_A), v)>>,
                 BaseCapabilities, BaseSubpacks)

DocVariesCapabilities ==
    \E k \in 0..MaxCaps : \E cs \in [1..k -> CapabilityTexts] :
        BaseWith(BaseHeader, BaseModules, BaseDependencies, cs, BaseSubpacks)

DocVariesSubpacks ==
    \E k \in 0..MaxSubpacks : \E ss \in [1..k -> Subpacks] :
        BaseWith(BaseHeader, BaseModules, BaseDependencies, BaseCapabilities, ss)

\* documents in which several parts are off at once
DocIsMixed ==
    \E h \in {BaseHeader, HeaderRecord(V100, V100, UUID_BAD),
              HeaderRecord(JsonText(Dotted(1, 0, 0)), V100, UUID_A)},
       ms \in {<<>>, BaseModules,
               <<ModuleRecord("data", UUID_A, V100, None),
                 ModuleRecord("script", UUID_A, V100, None)>>,
               <<ModuleRecord("data", UUID_A, JsonText(Dotted(1, 0, 0)), None)>>},
       ds \in {<<>>, BaseDependencies,
               <<DependencyRecord(None, Some(UUID_A), V100), DependencyRecord(None, None, V100)>>,
               <<DependencyRecord(None, Some(UUID_A), JsonOther)>>},
       cs \in {<<>>, <<"pbr", "pbr">>},
       ss \in {<<>>, BaseSubpacks} :
        BaseWith(h, ms, ds, cs, ss)

(********************************* Spec ************************************)
Init ==
    /\ \/ DocVariesHeader
       \/ DocVariesModules
       \/ DocVariesDependencies
       \/ DocVariesName
       \/ DocVariesVersion
       \/ DocVariesCapabilities
       \/ DocVariesSubpacks
       \/ DocIsMixed
    /\ pc = "ready"
    /\ manifest = <<>>
    /\ panic = ""
    /\ pre = PreVerVec(<<>>)
    /\ vpc = "idle"
    /\ semver = <<>>
    /\ vpanic = ""

\* one call of deserialize_manifest_from_str: the Manifest, or a panic and no
\* Manifest
Return(r) ==
    /\ pc' = IF r.ok THEN "returned" ELSE "panicked"
    /\ manifest' = IF r.ok THEN <<r.val>> ELSE <<>>
    /\ panic' = r.panic
    /\ UNCHANGED <<doc, pre, vpc, semver, vpanic>>

Deserialize ==
    /\ pc = "ready"
    /\ Return(deserialize_manifest_from_str(doc))

Next == Deserialize

Spec == Init /\ [][Next]_vars

(************************ claims on the SemVer parsers *********************)
\* the outcome of the parser call, as the caller sees it
VersionOutcomeIs(r) ==
    /\ vpc = IF r.ok THEN "returned" ELSE "panicked"
    /\ semver = IF r.ok THEN <<r.val>> ELSE <<>>

\* C8: for all a, b, c of the range, parse_semver_from_str("a.b.c") returns
\* {a, b, c, beta false} and parse_semver_from_str("a.b.c-beta") returns
\* {a, b, c, beta true}: the marker changes the flag alone and the components
\* go to major, minor, patch in order.
C8_DottedTextParses ==
    (vpc # "ready" /\ pre.kind = "Str") =>
        \A a \in Ints :
            MatchAt(pre.text, 1, to_string(a) \o <<".">>) =>
                \A b \in Ints :
                    MatchAt(pre.text, 1, to_string(a) \o <<".">> \o to_string(b) \o <<".">>) =>
                        \A c \in Ints, marked \in BOOLEAN :
                            pre.text = Dotted(a, b, c) \o (IF marked THEN BETA ELSE <<>>) =>
                                /\ vpc = "returned"
                                /\ semver = <<SemVer(a, b, c, marked)>>

C8_Witness ==
    /\ vpc = "returned"
    /\ pre = PreVerStr(Dotted(0 - 1, 10, 3) \o BETA)
    /\ semver = <<SemVer(0 - 1, 10, 3, TRUE)>>

\* C9: a version text with fewer than three dot-separated components, and an
\* integer vector of fewer than three elements, make the parser fail: no SemVer
\* is returned, none with guessed components either.
C9_TooFewComponentsFails ==
    /\ (vpc # "ready" /\ pre.kind = "Str" /\ Len(str_split(pre.text, ".")) < 3) =>
            (vpc = "panicked" /\ semver = <<>>)
    /\ (vpc # "ready" /\ pre.kind = "Vec" /\ Len(pre.ints) < 3) =>
            (vpc = "panicked" /\ semver = <<>>)

C9_Witness ==
    /\ vpc = "panicked"
    /\ pre = PreVerVec(<<1, 2>>)
    /\ vpanic = PANIC_INDEX

\* the parser as the claim C10 describes it: -beta counts only as the last five
\* characters, only that suffix is removed, the rest is split on "."
suffix_only_parse(src) ==
    LET ends == str_ends_with(src, BETA)
        stem == IF ends THEN SubSeq(src, 1, Len(src) - Len(BETA)) ELSE src
        parts == str_split(stem, ".")
        major == component(parts, 0)
        minor == component(parts, 1)
        patch == component(parts, 2)
    IN  IF major.ok /\ minor.ok /\ patch.ok
        THEN Returned(SemVer(major.val, minor.val, patch.val, ends))
        ELSE Panicked(PANIC_SEMVER, ZeroVer)

\* C10: parse_semver_from_str treats -beta strictly as a trailing suffix: beta
\* is true exactly when the text ends with -beta, only that suffix is removed,
\* and a -beta elsewhere stays in the component that is parsed as an integer.
C10_BetaOnlyAsSuffix ==
    (vpc # "ready" /\ pre.kind = "Str") => VersionOutcomeIs(suffix_only_parse(pre.text))

(************************ claims on the normalizer *************************)
\* the module types that are kept
KeptType(type_id) == type_id \in {"script", "data", "resources"}

\* the raw module records that are kept, in the order of the document
KeptModules == SelectSeq(doc.modules, LAMBDA m : KeptType(m.type_id))

\* the place in the normalized modules of the kept raw record i
OutIndex(i) == Cardinality({k \in 1..i : KeptType(doc.modules[k].type_id)})

\* C1: in every Manifest returned, dependencies, capabilities and subpacks have
\* the length of the input and their i-th element is the image of the i-th raw
\* record (duplicates kept), and modules is the images, in order, of the raw
\* module records whose type is script, data or resources.
C1_OrderPreserved ==
    pc = "returned" =>
        /\ Len(manifest[1].dependencies) = Len(doc.dependencies)
        /\ \A i \in 1..Len(doc.dependencies) :
               manifest[1].dependencies[i]
                   = convert_dependency(decode_dependency(doc.dependencies[i]).val).val
        /\ Len(manifest[1].capabilities) = Len(doc.capabilities)
        /\ \A i \in 1..Len(doc.capabilities) :
               manifest[1].capabilities[i] = convert_capability(doc.capabilities[i])
        /\ Len(manifest[1].subpacks) = Len(doc.subpacks)
        /\ \A i \in 1..Len(doc.subpacks) : manifest[1].subpacks[i] = doc.subpacks[i]
        /\ Len(manifest[1].modules) = Len(KeptModules)
        /\ \A i \in 1..Len(KeptModules) :
               <<manifest[1].modules[i]>> = convert_module(decode_module(KeptModules[i]).val).val

C1_Witness ==
    /\ pc = "returned"
    /\ Len(doc.modules) = 3
    /\ doc.modules[1].type_id = "script"
    /\ doc.modules[2].type_id = "plugin"
    /\ doc.modules[3].type_id = "data"
    /\ Len(manifest[1].modules) = 2
    /\ manifest[1].modules[1].variant = "Script"
    /\ manifest[1].modules[2].variant = "Data"

\* the seven known module names and their variants
KnownScriptName(n) ==
    CASE n = "@minecraft/server" -> "MinecraftServer"
      [] n = "@minecraft/server-ui" -> "MinecraftServerUi"
      [] n = "@minecraft/server-net" -> "MinecraftServerNet"
      [] n = "@minecraft/server-gametest" -> "MinecraftServerGametest"
      [] n = "@minecraft/server-admin" -> "MinecraftServerAdmin"
      [] n = "@minecraft/server-editor" -> "MinecraftServerEditor"
      [] n = "@minecraft/debug-utilities" -> "MinecraftDebugUtilities"
      [] OTHER -> "Custom"

\* C2: a raw dependency with module_name present, with or without a uuid and
\* whatever the uuid text, gives a ScriptDependency, never a UuidDependency; its
\* name is the variant of the table when module_name is exactly one of the seven
\* keys, and Custom(module_name) otherwise.
C2_ModuleNameFirst ==
    pc = "returned" =>
        \A i \in 1..Len(doc.dependencies) :
            doc.dependencies[i].module_name.some =>
                /\ manifest[1].dependencies[i].variant = "ScriptDependency"
                /\ manifest[1].dependencies[i].name.variant
                       = KnownScriptName(doc.dependencies[i].module_name.val)
                /\ manifest[1].dependencies[i].name.custom
                       = IF KnownScriptName(doc.dependencies[i].module_name.val) = "Custom"
                         THEN doc.dependencies[i].module_name.val ELSE ""

C2_Witness ==
    /\ pc = "returned"
    /\ Len(doc.dependencies) = 1
    /\ doc.dependencies[1].module_name = Some("@minecraft/server")
    /\ doc.dependencies[1].uuid = Some(UUID_BAD)
    /\ manifest[1].dependencies[1].variant = "ScriptDependency"
    /\ manifest[1].dependencies[1].name = Named("MinecraftServer")

\* the six capability names as the data model lists them
ListedCapability(c) ==
    CASE c = "chemistry" -> "Chemistry"
      [] c = "editor-extension" -> "EditorExtension"
      [] c = "experimental-custom-ui" -> "ExperimentalCustomUi"
      [] c = "PBR" -> "PBR"
      [] c = "script-eval" -> "ScriptEval"
      [] c = "raytraced" -> "Raytraced"
      [] OTHER -> "Custom"

\* the six keys of the table of manifest.rs
KeyedCapability(c) ==
    CASE c = "chemistry" -> "Chemistry"
      [] c = "editorExtension" -> "EditorExtension"
      [] c = "experimental_custom_ui" -> "ExperimentalCustomUi"
      [] c = "pbr" -> "PBR"
      [] c = "script_eval" -> "ScriptEval"
      [] c = "raytraced" -> "Raytraced"
      [] OTHER -> "Custom"

\* the variant a capability text is to resolve to, by the keys of the table or
\* by the names as listed
CapabilityVariant(c, keyed) == IF keyed THEN KeyedCapability(c) ELSE ListedCapability(c)

\* every capability of the Manifest returned is what the naming gives
CapabilitiesResolveBy(keyed) ==
    pc = "returned" =>
        \A i \in 1..Len(doc.capabilities) :
            /\ manifest[1].capabilities[i].variant = CapabilityVariant(doc.capabilities[i], keyed)
            /\ manifest[1].capabilities[i].custom
                   = IF CapabilityVariant(doc.capabilities[i], keyed) = "Custom"
                     THEN doc.capabilities[i] ELSE ""

\* C3 as claimed: each of chemistry, editor-extension, experimental-custom-ui,
\* PBR, script-eval, raytraced resolves to its named variant, and every other
\* string s to Custom(s).
C3_ListedNamesResolve == CapabilitiesResolveBy(FALSE)

\* C3 as amended: each of chemistry, editorExtension, experimental_custom_ui,
\* pbr, script_eval, raytraced resolves to its named variant, and every other
\* string s (editor-extension, experimental-custom-ui, PBR and script-eval among
\* them) to Custom(s), s unchanged.
C3_TableKeysResolve == CapabilitiesResolveBy(TRUE)

C3_Witness ==
    /\ pc = "returned"
    /\ doc.capabilities = <<"PBR", "pbr">>
    /\ manifest[1].capabilities = <<Custom("PBR"), Named("PBR")>>

\* a raw record that lacks its required field
LacksVariantField ==
    \/ \E i \in 1..Len(doc.dependencies) :
           ~doc.dependencies[i].uuid.some /\ ~doc.dependencies[i].module_name.some
    \/ \E i \in 1..Len(doc.modules) :
           doc.modules[i].type_id = "script" /\ ~doc.modules[i].entry.some

\* C4: when a raw dependency has neither uuid nor module_name, or a raw script
\* module has no entry, the call fails and returns no Manifest, wherever the
\* record stands and whatever stands around it.
C4_MissingFieldIsFatal ==
    (pc # "ready" /\ LacksVariantField) => (pc = "panicked" /\ manifest = <<>>)

C4_Witness ==
    /\ pc = "panicked"
    /\ panic = PANIC_UNWRAP_NONE
    /\ Len(doc.modules) = 3
    /\ doc.modules[1].type_id = "data"
    /\ doc.modules[2] = ModuleRecord("script", UUID_A, V100, None)
    /\ doc.modules[3].type_id = "script" /\ doc.modules[3].entry.some
    /\ manifest = <<>>

\* a version in one of the two encodings: three integers, or a text that the
\* text parser takes
WellFormedVersion(j) ==
    \/ j.kind = "Vec" /\ Len(j.ints) = 3
    \/ j.kind = "Str" /\ parse_semver_from_str(j.text).ok

\* the SemVer of a well-formed version, by the parser of its encoding
VersionOf(j) ==
    IF j.kind = "Str" THEN parse_semver_from_str(j.text).val
    ELSE parse_semver_from_vec(j.ints).val

\* the document with the header's two versions replaced
WithHeaderVersions(d, version, min_engine_version) ==
    [d EXCEPT !.header.version = version, !.header.min_engine_version = min_engine_version]

Unrecognized == {i \in 1..Len(doc.dependencies) : ~WellFormedVersion(doc.dependencies[i].version)}

\* the document with the version of those dependencies replaced by [1,0,0]
Repaired ==
    [doc EXCEPT !.dependencies =
        [i \in 1..Len(doc.dependencies) |->
            IF i \in Unrecognized THEN [doc.dependencies[i] EXCEPT !.version = V100]
            ELSE doc.dependencies[i]]]

\* C6: a dependency whose version is in neither encoding (a text that is no
\* dotted version, an array that is not three integers, anything else) does not
\* make the call fail, and that dependency carries 1.0.0, not beta.
C6_DependencyVersionLenient ==
    (/\ pc # "ready"
     /\ Unrecognized # {}
     /\ deserialize_manifest_from_str(Repaired).ok)
    => /\ pc = "returned"
       /\ \A i \in Unrecognized :
              manifest[1].dependencies[i].version = SemVer(1, 0, 0, FALSE)

\* C7: raw module records of type "data" and of type "resources" that agree in
\* uuid and version both give the Data variant, with the same Uuid and SemVer.
C7_ResourcesIsData ==
    pc = "returned" =>
        \A i \in 1..Len(doc.modules), j \in 1..Len(doc.modules) :
            (/\ doc.modules[i].type_id = "data"
             /\ doc.modules[j].type_id = "resources"
             /\ doc.modules[i].uuid = doc.modules[j].uuid
             /\ doc.modules[i].version = doc.modules[j].version)
            => /\ manifest[1].modules[OutIndex(i)].variant = "Data"
               /\ manifest[1].modules[OutIndex(j)].variant = "Data"
               /\ manifest[1].modules[OutIndex(i)] = manifest[1].modules[OutIndex(j)]
               /\ manifest[1].modules[OutIndex(j)].uuid = uuid_from_str(doc.modules[j].uuid).val
               /\ manifest[1].modules[OutIndex(j)].version
                      = SemVer(doc.modules[j].version.ints[1], doc.modules[j].version.ints[2],
                               doc.modules[j].version.ints[3], FALSE)

C7_Witness ==
    /\ pc = "returned"
    /\ doc.modules = <<ModuleRecord("resources", UUID_B, JsonInts(<<0, 2, 1>>), None),
                       ModuleRecord("plugin", UUID_A, V100, None),
                       ModuleRecord("data", UUID_B, JsonInts(<<0, 2, 1>>), None)>>
    /\ manifest[1].modules = <<ModuleData(UUID_B, SemVer(0, 2, 1, FALSE)),
                               ModuleData(UUID_B, SemVer(0, 2, 1, FALSE))>>

====
